---- MODULE Spec2Model ----
(***************************************************************************)
(* The streaming dashboard of src/app.py as a state machine.  The script   *)
(* is re-run top to bottom on every refresh tick or user interaction; one  *)
(* such run is a pass.  What survives a pass is the session state          *)
(* (live_buffer, last_live_time) and the values of the sidebar widgets;    *)
(* everything else is rebuilt.                                             *)
(*                                                                         *)
(* Time is in whole seconds; values are in hundredths (round(.., 2)).      *)
(* A data frame is [columns |-> set of names, rows |-> sequence of rows];  *)
(* a row is a record holding the cells that are present: a NaN / NaT cell  *)
(* is a field that is missing from the row.                                *)
(***************************************************************************)
EXTENDS Integers, Sequences, FiniteSets, TLC

VARIABLES
    now,             \* the wall clock, datetime.now()
    initialised,     \* "live_buffer" in st.session_state
    live_buffer,     \* st.session_state.live_buffer (rows, oldest first)
    last_live_time,  \* st.session_state.last_live_time
    ticks,           \* number of batches appended since the buffer was created
    passes,          \* number of passes explored so far
    started,         \* the page has been opened (the first pass has run)
    mode,            \* the Mode selectbox
    auto_refresh,    \* the Auto-refresh checkbox
    show_table,      \* the Show raw table checkbox
    download_btn,    \* the Download button, TRUE in the pass its click starts
    ticked,          \* number of batches the last pass appended
    new_rows,        \* new_rows of the last pass (empty when it appended none)
    uploaded,        \* the file the uploader holds (<<>>: none)
    metric_filter,   \* the Metric Type multiselect
    sensor_filter,   \* the Sensor ID multiselect
    raw_df,          \* data_df of the last pass as produced by the mode branch
    data_df,         \* data_df of the last pass after the filter stage
    notice,          \* sidebar message of the last pass
    view,            \* what the last pass rendered
    gen_in,          \* arguments of the last direct generate_live_rows call
    gen_out,         \* its result
    flt_in,          \* arguments of the last direct filter-stage application
    flt_out          \* its result

vars == <<now, initialised, live_buffer, last_live_time, ticks, passes, started,
          mode, auto_refresh, show_table, download_btn, ticked, new_rows, uploaded, metric_filter, sensor_filter,
          raw_df, data_df, notice, view, gen_in, gen_out, flt_in, flt_out>>

-----------------------------------------------------------------------------
(* Program constants *)

BufferCap == 500
InitialRows == 60
BatchRows == 5
SampleRows == 200
StepSeconds == 2
BaseValue == 10000
NoiseSpan == 500
DriftPerRow == 10
NumSensors == 4
RefreshInterval == 5

MetricChoices == <<"temperature", "humidity">>
MetricOptions == {"temperature", "humidity"}
SensorOptions == {"sensor_1", "sensor_2", "sensor_3", "sensor_4"}
SensorName(k) == <<"sensor_1", "sensor_2", "sensor_3", "sensor_4">>[k]
AllColumns == {"timestamp", "sensor_id", "metric_type", "value"}

LiveMode == "Live (simulated)"
UploadMode == "Upload CSV"
SampleMode == "Sample data"

(* Bounds of the exploration *)

MaxPasses == 3
WarmTicks == 87
MaxN == 6
MaxStart == 8
MaxUploadRows == 3
MaxFilterRows == 2

Seeds == {0, 1}

-----------------------------------------------------------------------------
(* The process-wide random source.  A call of generate_live_rows consumes  *)
(* three draws per row; which stream of outcomes it sees is chosen per     *)
(* call (seed).  Draw(seed, j) is the j-th outcome of that stream.         *)

Draw(seed, j) == ((seed + 2) * (j * j + 3 * j + 5) + seed * j) % 1009

RandInt(seed, i) == 1 + (Draw(seed, 3 * i) % NumSensors)
RandChoice(seed, i) == MetricChoices[1 + (Draw(seed, 3 * i + 1) % Len(MetricChoices))]
RandUniform(seed, i) == (Draw(seed, 3 * i + 2) % (2 * NoiseSpan + 1)) - NoiseSpan

(* A generator whose last row is stamped start_time itself.                *)
GenRowEndsAtStart(n, start_time, seed, i) ==
    [timestamp   |-> start_time - (n - i - 1) * StepSeconds,
     sensor_id   |-> SensorName(RandInt(seed, i)),
     metric_type |-> RandChoice(seed, i),
     value       |-> BaseValue + RandUniform(seed, i) + i * DriftPerRow]

(* generate_live_rows(n, start_time): row i (zero-based) of n.             *)
GenRow(n, start_time, seed, i) ==
    [timestamp   |-> start_time - (n - i) * StepSeconds,
     sensor_id   |-> SensorName(RandInt(seed, i)),
     metric_type |-> RandChoice(seed, i),
     value       |-> BaseValue + RandUniform(seed, i) + i * DriftPerRow]

generate_live_rows(n, start_time, seed) ==
    [k \in 1..n |-> GenRow(n, start_time, seed, k - 1)]

Frame(cols, rows) == [columns |-> cols, rows |-> rows]
EmptyFrame == Frame({}, <<>>)
GeneratedFrame(rows) == Frame(IF Len(rows) = 0 THEN {} ELSE AllColumns, rows)
IsEmpty(df) == Len(df.rows) = 0 \/ df.columns = {}

-----------------------------------------------------------------------------
(* The filter stage, as the script applies it.                             *)

IsIn(row, col, allowed) == col \in DOMAIN row /\ row[col] \in allowed

(* A metric mask applied without looking for the column first.            *)
MetricMaskUnguarded(df, metrics) ==
    IF metrics # {}
    THEN Frame(df.columns,
               SelectSeq(df.rows, LAMBDA r : IsIn(r, "metric_type", metrics)))
    ELSE df

MetricMask(df, metrics) ==
    IF "metric_type" \in df.columns /\ metrics # {}
    THEN Frame(df.columns,
               SelectSeq(df.rows, LAMBDA r : IsIn(r, "metric_type", metrics)))
    ELSE df

(* A sensor mask that reads an empty selection as "exclude all".           *)
SensorMaskStrict(df, sensors) ==
    IF "sensor_id" \in df.columns
    THEN Frame(df.columns,
               SelectSeq(df.rows, LAMBDA r : IsIn(r, "sensor_id", sensors)))
    ELSE df

SensorMask(df, sensors) ==
    IF sensors # {}
    THEN IF "sensor_id" \in df.columns
         THEN Frame(df.columns,
                    SelectSeq(df.rows, LAMBDA r : IsIn(r, "sensor_id", sensors)))
         ELSE df
    ELSE df

FilterStage(df, metrics, sensors) ==
    IF ~IsEmpty(df) THEN SensorMask(MetricMask(df, metrics), sensors) ELSE df

-----------------------------------------------------------------------------
(* parse_uploaded_csv.  An uploaded file is [ok, columns, rows]: ok is     *)
(* whether pd.read_csv accepts it; a timestamp cell as read is             *)
(* [parses, at]: whether pd.to_datetime can convert the text, and to what. *)

ToDatetime(r) ==
    IF "timestamp" \notin DOMAIN r THEN r
    ELSE IF r.timestamp.parses
         THEN [c \in DOMAIN r |-> IF c = "timestamp" THEN r.timestamp.at ELSE r[c]]
         ELSE [c \in DOMAIN r \ {"timestamp"} |-> r[c]]

(* A parser that hands back whatever was read when read_csv gives up.      *)
parse_uploaded_csv_partial(file) ==
    IF "timestamp" \in file.columns
    THEN << Frame(file.columns, [k \in 1..Len(file.rows) |-> ToDatetime(file.rows[k])]) >>
    ELSE << Frame(file.columns, file.rows) >>

(* The result is <<>> for None and <<df>> for a frame.                     *)
parse_uploaded_csv(file) ==
    IF ~file.ok THEN <<>>
    ELSE IF "timestamp" \in file.columns
         THEN << Frame(file.columns, [k \in 1..Len(file.rows) |-> ToDatetime(file.rows[k])]) >>
         ELSE << Frame(file.columns, file.rows) >>

-----------------------------------------------------------------------------
(* The rolling buffer.                                                     *)

(* A buffer that is never truncated.                                       *)
TailRowsUncapped(rows) == rows

TailRows(rows) ==
    IF Len(rows) <= BufferCap THEN rows
    ELSE SubSeq(rows, Len(rows) - BufferCap + 1, Len(rows))

(* A tick that keeps the head (head(500)) instead of the tail.             *)
TickKeepsHead(buffer, batch) ==
    SubSeq(buffer \o batch, 1,
           IF Len(buffer) + Len(batch) <= BufferCap THEN Len(buffer) + Len(batch)
           ELSE BufferCap)

(* Append the batch, keep the tail.                                        *)
Tick(buffer, batch) == TailRows(buffer \o batch)

-----------------------------------------------------------------------------
(* The view derivations over the filtered data_df.                         *)

HasTs(r) == "timestamp" \in DOMAIN r

(* strftime("%Y-%m-%d %H:%M:%S") of a point in time, and astype(str).      *)
Strftime(t) == ToString(t)
DatetimeStr(t) == ToString(t)
NaNCell == "NaN"
NaTText == "NaT"
NotAvailable == "N/A"
NoLine == ""

(* Stable merge of two latest-first runs, a before b on equal timestamps. *)
RECURSIVE FirstNotNewer(_, _, _, _)
FirstNotNewer(b, t, lo, hi) ==
    IF lo > hi THEN lo
    ELSE LET mid == (lo + hi) \div 2
         IN  IF b[mid].timestamp > t
             THEN FirstNotNewer(b, t, mid + 1, hi)
             ELSE FirstNotNewer(b, t, lo, mid - 1)

RECURSIVE MergeDesc(_, _)
MergeDesc(a, b) ==
    IF a = <<>> THEN b
    ELSE IF b = <<>> THEN a
    ELSE LET m == (Len(a) + 1) \div 2
             k == FirstNotNewer(b, a[m].timestamp, 1, Len(b)) - 1
         IN  MergeDesc(SubSeq(a, 1, m - 1), SubSeq(b, 1, k))
             \o <<a[m]>>
             \o MergeDesc(SubSeq(a, m + 1, Len(a)), SubSeq(b, k + 1, Len(b)))

RECURSIVE SortDesc(_)
SortDesc(rows) ==
    IF Len(rows) <= 1 THEN rows
    ELSE LET h == Len(rows) \div 2
         IN  MergeDesc(SortDesc(SubSeq(rows, 1, h)),
                       SortDesc(SubSeq(rows, h + 1, Len(rows))))

(* sort_values("timestamp", ascending=False): rows without a timestamp go  *)
(* last; rows with equal timestamps are kept in their order.               *)
SortLatestFirst(rows) ==
    SortDesc(SelectSeq(rows, HasTs)) \o SelectSeq(rows, LAMBDA r : ~HasTs(r))

(* A table cell that fills a missing timestamp with "N/A".                 *)
DisplayCellFilled(r) == IF HasTs(r) THEN Strftime(r.timestamp) ELSE NotAvailable

(* The displayed table.                                                    *)
DisplayCell(r) == IF HasTs(r) THEN Strftime(r.timestamp) ELSE NaNCell

DisplayRow(r) ==
    [c \in DOMAIN r \cup {"timestamp"} |->
        IF c = "timestamp" THEN DisplayCell(r) ELSE r[c]]

DisplayTable(df) ==
    IF "timestamp" \in df.columns
    THEN LET sorted == SortLatestFirst(df.rows)
         IN  [k \in 1..Len(sorted) |-> DisplayRow(sorted[k])]
    ELSE df.rows

(* The exported rows.                                                      *)
ExportRow(r) ==
    [c \in DOMAIN r \cup {"timestamp"} |->
        IF c = "timestamp"
        THEN (IF HasTs(r) THEN DatetimeStr(r.timestamp) ELSE NaTText)
        ELSE r[c]]

ExportCsv(df) ==
    IF "timestamp" \in df.columns
    THEN [header |-> df.columns, lines |-> [k \in 1..Len(df.rows) |-> ExportRow(df.rows[k])]]
    ELSE [header |-> df.columns, lines |-> df.rows]

NoCsv == [header |-> {}, lines |-> <<>>]

(* Sum, count, min and max of the value column of rows lo..hi.           *)
RECURSIVE FoldValues(_, _, _)
FoldValues(rows, lo, hi) ==
    IF lo = hi
    THEN [total |-> rows[lo].value, count |-> 1,
          mn |-> rows[lo].value, mx |-> rows[lo].value]
    ELSE LET mid   == (lo + hi) \div 2
             left  == FoldValues(rows, lo, mid)
             right == FoldValues(rows, mid + 1, hi)
         IN  [total |-> left.total + right.total,
              count |-> left.count + right.count,
              mn    |-> IF right.mn < left.mn THEN right.mn ELSE left.mn,
              mx    |-> IF right.mx > left.mx THEN right.mx ELSE left.mx]

NoStats == [total |-> 0, count |-> 0, mn |-> 0, mx |-> 0]
QuickStats(df) == FoldValues(df.rows, 1, Len(df.rows))

(* The last-timestamp line of the summary: max() skips missing values.     *)
RECURSIVE MaxTs(_, _, _)
MaxTs(rows, lo, hi) ==
    IF lo > hi THEN <<>>
    ELSE IF lo = hi
    THEN (IF HasTs(rows[lo]) THEN <<rows[lo].timestamp>> ELSE <<>>)
    ELSE LET mid   == (lo + hi) \div 2
             left  == MaxTs(rows, lo, mid)
             right == MaxTs(rows, mid + 1, hi)
         IN  IF left = <<>> THEN right
             ELSE IF right = <<>> THEN left
             ELSE IF right[1] > left[1] THEN right ELSE left

LastTimestamp(df) ==
    IF "timestamp" \in df.columns
    THEN LET last_ts == MaxTs(df.rows, 1, Len(df.rows))
         IN  IF last_ts = <<>> THEN NotAvailable ELSE Strftime(last_ts[1])
    ELSE NoLine

(* Everything the pass renders.  px.line raises when the frame has no      *)
(* "value" column; the exception ends the pass, and nothing after the      *)
(* chart is rendered.                                                      *)
Render(df, show, download) ==
    IF IsEmpty(df)
    THEN [fault |-> "none", plot |-> "no_data", stats_shown |-> "placeholder",
          stats |-> NoStats, row_count |-> Len(df.rows), last_ts |-> LastTimestamp(df),
          table_shown |-> FALSE, table |-> <<>>,
          export_offered |-> FALSE, export |-> NoCsv]
    ELSE IF "value" \notin df.columns
    THEN [fault |-> "plot", plot |-> "not_rendered", stats_shown |-> "not_rendered",
          stats |-> NoStats, row_count |-> 0, last_ts |-> NoLine,
          table_shown |-> FALSE, table |-> <<>>,
          export_offered |-> FALSE, export |-> NoCsv]
    ELSE [fault |-> "none",
          plot |-> IF "timestamp" \in df.columns THEN "by_timestamp" ELSE "by_index",
          stats_shown |-> "metrics", stats |-> QuickStats(df),
          row_count |-> Len(df.rows), last_ts |-> LastTimestamp(df),
          table_shown |-> show,
          table |-> IF show THEN DisplayTable(df) ELSE <<>>,
          export_offered |-> download,
          export |-> IF download THEN ExportCsv(df) ELSE NoCsv]

NothingRendered == Render(EmptyFrame, FALSE, FALSE)

-----------------------------------------------------------------------------
(* The mode dispatch.  sess is the session state before the pass, t the    *)
(* clock of the pass, file the uploader's content (<<>> for none), s0 and  *)
(* s1 the random streams of the first and second generator call of the     *)
(* pass.                                                                   *)

NoNotice == ""
ParseFailed == "Failed to parse CSV."
NoFile == "No file uploaded."

Session(init, buffer, llt, k) ==
    [initialised |-> init, live_buffer |-> buffer, last_live_time |-> llt, ticks |-> k]

Dispatched(sess, df, msg, batch) ==
    [session |-> sess, df |-> df, notice |-> msg, new_rows |-> batch]

(* A sample branch that stores its rows in the session.                   *)
SampleBranchStores(sess, t, s0) ==
    Dispatched(Session(TRUE, generate_live_rows(SampleRows, t, s0), t, sess.ticks),
               GeneratedFrame(generate_live_rows(SampleRows, t, s0)), NoNotice, <<>>)

SampleBranch(sess, t, s0) ==
    Dispatched(sess, GeneratedFrame(generate_live_rows(SampleRows, t, s0)), NoNotice, <<>>)

UploadBranch(sess, file) ==
    IF file # <<>>
    THEN LET parsed == parse_uploaded_csv(file[1])
         IN  IF parsed = <<>>
             THEN Dispatched(sess, EmptyFrame, ParseFailed, <<>>)
             ELSE Dispatched(sess, parsed[1], NoNotice, <<>>)
    ELSE Dispatched(sess, EmptyFrame, NoFile, <<>>)

LiveBranch(sess, auto, t, s0, s1) ==
    LET created == IF sess.initialised THEN sess
                   ELSE Session(TRUE, generate_live_rows(InitialRows, t, s0), t, 0)
        batch   == IF auto THEN generate_live_rows(BatchRows, t, s1) ELSE <<>>
        after   == IF auto
                   THEN Session(TRUE, Tick(created.live_buffer, batch),
                                created.last_live_time, created.ticks + 1)
                   ELSE created
    IN  Dispatched(after, GeneratedFrame(after.live_buffer), NoNotice, batch)

(* A dispatch that appends a batch in every mode when auto-refresh is on.  *)
ModeDispatchTicksAnyMode(m, sess, auto, file, t, s0, s1) ==
    LET live == LiveBranch(sess, auto, t, s0, s1)
    IN  IF m = SampleMode
        THEN [SampleBranch(sess, t, s0) EXCEPT !.session = live.session,
                                               !.new_rows = live.new_rows]
        ELSE IF m = UploadMode
        THEN [UploadBranch(sess, file) EXCEPT !.session = live.session,
                                              !.new_rows = live.new_rows]
        ELSE live

ModeDispatch(m, sess, auto, file, t, s0, s1) ==
    IF m = SampleMode THEN SampleBranch(sess, t, s0)
    ELSE IF m = UploadMode THEN UploadBranch(sess, file)
    ELSE LiveBranch(sess, auto, t, s0, s1)

-----------------------------------------------------------------------------
(* One pass of the script under the widget values given, d seconds after   *)
(* the previous one.                                                       *)

Pass(m, auto, st, dl, file, mf, sf, d, s0, s1) ==
    /\ passes < MaxPasses
    /\ \E out \in {ModeDispatch(m, Session(initialised, live_buffer, last_live_time, ticks),
                                 auto, file, now + d, s0, s1)} :
       \E df \in {FilterStage(out.df, mf, sf)} :
        /\ passes' = passes + 1
        /\ started' = TRUE
        /\ now' = now + d
        /\ initialised' = out.session.initialised
        /\ live_buffer' = out.session.live_buffer
        /\ last_live_time' = out.session.last_live_time
        /\ ticks' = out.session.ticks
        /\ mode' = m
        /\ auto_refresh' = auto
        /\ show_table' = st
        /\ download_btn' = dl
        /\ ticked' = out.session.ticks - ticks
        /\ new_rows' = out.new_rows
        /\ uploaded' = file
        /\ metric_filter' = mf
        /\ sensor_filter' = sf
        /\ raw_df' = out.df
        /\ data_df' = df
        /\ notice' = out.notice
        /\ view' = Render(df, st, dl)
        /\ UNCHANGED <<gen_in, gen_out, flt_in, flt_out>>

(* The random streams a pass can see: one choice per generator call made.  *)
StreamsIf(used) == IF used THEN Seeds ELSE {CHOOSE s \in Seeds : TRUE}

Rerun(m, auto, st, dl, file, mf, sf, d) ==
    \E s0 \in StreamsIf(m = SampleMode \/ (m = LiveMode /\ ~initialised)),
       s1 \in StreamsIf(m = LiveMode /\ auto) :
        Pass(m, auto, st, dl, file, mf, sf, d, s0, s1)

-----------------------------------------------------------------------------
(* What starts a pass: opening the page, the st_autorefresh timer, or a    *)
(* change of one sidebar widget.                                           *)

Modes == {LiveMode, UploadMode, SampleMode}

Toggle(set, x) == IF x \in set THEN set \ {x} ELSE set \cup {x}

FileRows ==
    << [timestamp |-> [parses |-> TRUE, at |-> 1], sensor_id |-> "sensor_1",
        metric_type |-> "temperature", value |-> 2050],
       [timestamp |-> [parses |-> FALSE, at |-> 0], sensor_id |-> "sensor_2",
        metric_type |-> "humidity", value |-> 4000],
       [sensor_id |-> "sensor_1", value |-> 3000] >>

Project(r, cols) == [c \in DOMAIN r \cap cols |-> r[c]]

FileBody(n, cols) ==
    [k \in 1..n |-> Project(FileRows[((k - 1) % Len(FileRows)) + 1], cols)]

FileColumnSets == {AllColumns} \cup {AllColumns \ {c} : c \in AllColumns}

UploadedFiles ==
    { [ok |-> FALSE, columns |-> {}, rows |-> <<>>] }
    \cup { [ok |-> TRUE, columns |-> cols, rows |-> FileBody(n, cols)] :
              n \in {0, MaxUploadRows}, cols \in FileColumnSets }

OpenPage ==
    /\ ~started
    /\ Rerun(mode, auto_refresh, show_table, FALSE, uploaded,
             metric_filter, sensor_filter, 0)

AutoRefreshTimer ==
    /\ started
    /\ Rerun(mode, auto_refresh, show_table, FALSE, uploaded,
             metric_filter, sensor_filter, RefreshInterval)

SelectMode ==
    /\ started
    /\ \E m \in Modes \ {mode} :
        Rerun(m, auto_refresh, show_table, FALSE, <<>>, metric_filter, sensor_filter, 0)

ToggleAutoRefresh ==
    /\ started
    /\ Rerun(mode, ~auto_refresh, show_table, FALSE, uploaded,
             metric_filter, sensor_filter, 0)

ToggleShowTable ==
    /\ started
    /\ Rerun(mode, auto_refresh, ~show_table, FALSE, uploaded,
             metric_filter, sensor_filter, 0)

ClickDownload ==
    /\ started
    /\ Rerun(mode, auto_refresh, show_table, TRUE, uploaded,
             metric_filter, sensor_filter, 0)

ChangeMetricFilter ==
    /\ started
    /\ \E x \in MetricOptions :
        Rerun(mode, auto_refresh, show_table, FALSE, uploaded,
              Toggle(metric_filter, x), sensor_filter, 0)

ChangeSensorFilter ==
    /\ started
    /\ \E x \in SensorOptions :
        Rerun(mode, auto_refresh, show_table, FALSE, uploaded,
              metric_filter, Toggle(sensor_filter, x), 0)

ChangeUpload ==
    /\ started
    /\ mode = UploadMode
    /\ \E file \in ({<<>>} \cup {<<u>> : u \in UploadedFiles}) \ {uploaded} :
        Rerun(mode, auto_refresh, show_table, FALSE, file,
              metric_filter, sensor_filter, 0)

-----------------------------------------------------------------------------
(* Direct applications of the generator and of the filter stage.           *)

NoGenCall == [n |-> 0, start_time |-> 0, seed |-> 0]
NoFilterCall == [called |-> FALSE, df |-> EmptyFrame, metrics |-> {}, sensors |-> {}]

GenerateCall ==
    \E n \in 1..MaxN, start_time \in 0..MaxStart, seed \in Seeds :
        /\ gen_in = NoGenCall
        /\ gen_in' = [n |-> n, start_time |-> start_time, seed |-> seed]
        /\ gen_out' = generate_live_rows(n, start_time, seed)
        /\ UNCHANGED <<now, initialised, live_buffer, last_live_time, ticks, passes,
                       started, mode, auto_refresh, show_table, download_btn, ticked,
                       new_rows, uploaded, metric_filter, sensor_filter, raw_df,
                       data_df, notice, view, flt_in, flt_out>>

FilterColumnSets ==
    { {"timestamp", "value"} \cup c : c \in SUBSET {"metric_type", "sensor_id"} }

FilterRowPool ==
    { Project([timestamp |-> 1, value |-> 100, metric_type |-> m, sensor_id |-> s], cols) :
        m \in MetricOptions, s \in {"sensor_1", "sensor_2"}, cols \in FilterColumnSets }

RECURSIVE RowSeqs(_)
RowSeqs(n) ==
    IF n = 0 THEN { <<>> }
    ELSE LET shorter == RowSeqs(n - 1)
         IN  shorter \cup { Append(q, r) : q \in { x \in shorter : Len(x) = n - 1 },
                                           r \in FilterRowPool }

FramesOver(cols) ==
    { Frame(cols, q) :
        q \in { x \in RowSeqs(MaxFilterRows) : \A k \in 1..Len(x) : DOMAIN x[k] \subseteq cols } }

FilterFrames == UNION { FramesOver(cols) : cols \in FilterColumnSets }

FilterCall ==
    \E df \in FilterFrames, metrics \in SUBSET MetricOptions, sensors \in SUBSET SensorOptions :
        /\ ~flt_in.called
        /\ flt_in' = [called |-> TRUE, df |-> df, metrics |-> metrics, sensors |-> sensors]
        /\ flt_out' = FilterStage(df, metrics, sensors)
        /\ UNCHANGED <<now, initialised, live_buffer, last_live_time, ticks, passes,
                       started, mode, auto_refresh, show_table, download_btn, ticked,
                       new_rows, uploaded, metric_filter, sensor_filter, raw_df,
                       data_df, notice, view, gen_in, gen_out>>

-----------------------------------------------------------------------------
(* Initial states.  InitFresh is a new session, the page not yet opened,   *)
(* every widget at its default.  InitWarm is a session left alone in Live  *)
(* mode: the page was opened (pass 1 creates the buffer and appends the    *)
(* first batch) and the timer fired until WarmTicks batches were appended, *)
(* the last of them at time 0.  Its buffer is the tail of the initial rows *)
(* followed by those batches.                                              *)

WarmTime(k) == (k - WarmTicks) * RefreshInterval
WarmSeed(k) == k % Cardinality(Seeds)
WarmBatch(k) == generate_live_rows(BatchRows, WarmTime(k), WarmSeed(k))

RECURSIVE WarmBatches(_, _)
WarmBatches(lo, hi) ==
    IF lo > hi THEN <<>>
    ELSE IF lo = hi THEN WarmBatch(lo)
    ELSE LET mid == (lo + hi) \div 2
         IN  WarmBatches(lo, mid) \o WarmBatches(mid + 1, hi)

WarmBuffer ==
    TailRows(generate_live_rows(InitialRows, WarmTime(1), WarmSeed(0))
             \o WarmBatches(1, WarmTicks))

InitFresh ==
    /\ now = 0
    /\ initialised = FALSE
    /\ live_buffer = <<>>
    /\ last_live_time = 0
    /\ ticks = 0
    /\ passes = 0
    /\ started = FALSE
    /\ mode = LiveMode
    /\ auto_refresh = TRUE
    /\ show_table = FALSE
    /\ download_btn = FALSE
    /\ ticked = 0
    /\ new_rows = <<>>
    /\ uploaded = <<>>
    /\ metric_filter = MetricOptions
    /\ sensor_filter = {}
    /\ raw_df = EmptyFrame
    /\ data_df = EmptyFrame
    /\ notice = NoNotice
    /\ view = NothingRendered
    /\ gen_in = NoGenCall
    /\ gen_out = <<>>
    /\ flt_in = NoFilterCall
    /\ flt_out = EmptyFrame

WarmData == FilterStage(GeneratedFrame(WarmBuffer), MetricOptions, {})

InitWarm ==
    /\ now = 0
    /\ initialised = TRUE
    /\ live_buffer = WarmBuffer
    /\ last_live_time = WarmTime(1)
    /\ ticks = WarmTicks
    /\ passes = 0
    /\ started = TRUE
    /\ mode = LiveMode
    /\ auto_refresh = TRUE
    /\ show_table = FALSE
    /\ download_btn = FALSE
    /\ ticked = 1
    /\ new_rows = WarmBatch(WarmTicks)
    /\ uploaded = <<>>
    /\ metric_filter = MetricOptions
    /\ sensor_filter = {}
    /\ raw_df = GeneratedFrame(WarmBuffer)
    /\ data_df = WarmData
    /\ notice = NoNotice
    /\ view = Render(WarmData, FALSE, FALSE)
    /\ gen_in = NoGenCall
    /\ gen_out = <<>>
    /\ flt_in = NoFilterCall
    /\ flt_out = EmptyFrame

Init == InitFresh \/ InitWarm

Next ==
    \/ OpenPage
    \/ AutoRefreshTimer
    \/ SelectMode
    \/ ToggleAutoRefresh
    \/ ToggleShowTable
    \/ ClickDownload
    \/ ChangeMetricFilter
    \/ ChangeSensorFilter
    \/ ChangeUpload

Spec == Init /\ [][Next]_vars

SpecFresh == InitFresh /\ [][Next]_vars

SpecGen == InitFresh /\ [][GenerateCall]_vars

SpecFilter == InitFresh /\ [][FilterCall]_vars

-----------------------------------------------------------------------------
(* Properties.                                                             *)

Min(a, b) == IF a <= b THEN a ELSE b
Carries(r, col) == col \in DOMAIN r
Count(rows, P(_)) == Cardinality({k \in 1..Len(rows) : P(rows[k])})

(* C1: from init() (60 rows) and after k ticks the rolling buffer holds    *)
(* exactly min(60 + 5k, 500) rows, and never more than 500.                *)
BufferSizeIsCapped ==
    /\ Len(live_buffer) <= BufferCap
    /\ initialised => Len(live_buffer) = Min(InitialRows + BatchRows * ticks, BufferCap)
    /\ ~initialised => live_buffer = <<>>

BufferSizeAtCap ==
    /\ initialised
    /\ passes > 0
    /\ InitialRows + BatchRows * ticks > BufferCap
    /\ Len(live_buffer) = BufferCap

(* C2: in every reachable state the rows of the rolling buffer are in      *)
(* non-decreasing timestamp order.                                         *)
BufferIsChronological ==
    \A k \in 1..(Len(live_buffer) - 1) :
        live_buffer[k].timestamp <= live_buffer[k + 1].timestamp

(* C3: a tick on buffer B with batch N yields exactly the last 500 rows of *)
(* B ++ N in unchanged order: on a full buffer the 5 oldest rows go and N  *)
(* is the end; when |B| + 5 <= 500 no row of B is dropped.                 *)
TickKeepsNewestRows ==
    [][ (initialised /\ new_rows' # <<>>) =>
          LET B   == live_buffer
              N   == new_rows'
              cat == B \o N
              out == live_buffer'
          IN  /\ Len(N) = BatchRows
              /\ Len(out) = Min(Len(cat), BufferCap)
              /\ \A k \in 1..Len(out) : out[k] = cat[Len(cat) - Len(out) + k]
              /\ Len(B) = BufferCap => out = SubSeq(B, BatchRows + 1, Len(B)) \o N
              /\ Len(B) + BatchRows <= BufferCap => out = B \o N ]_vars

TickOnFullBuffer ==
    /\ initialised
    /\ ticked = 1
    /\ InitialRows + BatchRows * (ticks - 1) >= BufferCap
    /\ Len(live_buffer) = BufferCap
    /\ SubSeq(live_buffer, BufferCap - BatchRows + 1, BufferCap) = new_rows

(* C4 as stated: generate(n, start_time) returns n rows, strictly          *)
(* increasing, 2 seconds apart, the last one stamped start_time.           *)
GenerateEndsAtStartTime ==
    gen_in.n > 0 =>
        /\ Len(gen_out) = gen_in.n
        /\ \A k \in 1..(Len(gen_out) - 1) :
              gen_out[k + 1].timestamp = gen_out[k].timestamp + 2
        /\ gen_out[Len(gen_out)].timestamp = gen_in.start_time

(* C4 as amended: generate(n, start_time) returns n rows, strictly         *)
(* increasing, 2 seconds apart, the last one stamped start_time minus 2    *)
(* seconds (row i is stamped start_time - (n - i) * 2s).                   *)
GenerateEndsBeforeStartTime ==
    gen_in.n > 0 =>
        /\ Len(gen_out) = gen_in.n
        /\ \A k \in 1..(Len(gen_out) - 1) :
              /\ gen_out[k].timestamp < gen_out[k + 1].timestamp
              /\ gen_out[k + 1].timestamp = gen_out[k].timestamp + 2
        /\ gen_out[Len(gen_out)].timestamp = gen_in.start_time - 2

GenerateSeveralRows ==
    /\ gen_in.n > 1
    /\ Len(gen_out) = gen_in.n

(* C5: on a row set whose rows all carry metric_type and sensor_id, a row  *)
(* is retained iff (metrics is empty or its metric_type is in metrics) and *)
(* (sensors is empty or its sensor_id is in sensors); survivors keep their *)
(* order.                                                                  *)
AllCarry(df) ==
    /\ {"metric_type", "sensor_id"} \subseteq df.columns
    /\ \A k \in 1..Len(df.rows) :
          Carries(df.rows[k], "metric_type") /\ Carries(df.rows[k], "sensor_id")

FilterRetainsIff ==
    (flt_in.called /\ AllCarry(flt_in.df)) =>
        LET Keep(r) == /\ (flt_in.metrics = {} \/ r.metric_type \in flt_in.metrics)
                       /\ (flt_in.sensors = {} \/ r.sensor_id \in flt_in.sensors)
        IN  /\ flt_out.rows = SelectSeq(flt_in.df.rows, Keep)
            /\ flt_out.columns = flt_in.df.columns

FilterDropsSomeRow ==
    /\ flt_in.called
    /\ AllCarry(flt_in.df)
    /\ flt_in.sensors = {}
    /\ flt_in.metrics # {}
    /\ Len(flt_out.rows) > 0
    /\ Len(flt_out.rows) < Len(flt_in.df.rows)

(* C6 as stated: a row that lacks the metric_type (sensor_id) field, also  *)
(* when the whole row set has no such column, survives the metric (sensor) *)
(* predicate only if that filter set is empty.                             *)
AbsentFieldIsRemoved ==
    flt_in.called =>
        /\ flt_in.metrics # {} =>
              \A k \in 1..Len(flt_out.rows) : Carries(flt_out.rows[k], "metric_type")
        /\ flt_in.sensors # {} =>
              \A k \in 1..Len(flt_out.rows) : Carries(flt_out.rows[k], "sensor_id")

(* C6 as amended: in a row set that has the metric_type (sensor_id)        *)
(* column, a row whose cell is missing survives the metric (sensor)        *)
(* predicate only if that filter set is empty; when the row set has no     *)
(* such column the predicate is not applied and every row passes it,       *)
(* whatever the filter set.                                                *)
AbsentCellIsRemoved ==
    flt_in.called =>
        LET df == flt_in.df
            KeepMetric(r) ==
                \/ flt_in.metrics = {}
                \/ "metric_type" \notin df.columns
                \/ (Carries(r, "metric_type") /\ r.metric_type \in flt_in.metrics)
            KeepSensor(r) ==
                \/ flt_in.sensors = {}
                \/ "sensor_id" \notin df.columns
                \/ (Carries(r, "sensor_id") /\ r.sensor_id \in flt_in.sensors)
            Keep(r) == KeepMetric(r) /\ KeepSensor(r)
        IN  flt_out.rows = SelectSeq(df.rows, Keep)

AbsentColumnIsKept ==
    /\ flt_in.called
    /\ "metric_type" \notin flt_in.df.columns
    /\ flt_in.metrics # {}
    /\ flt_in.sensors = {}
    /\ Len(flt_out.rows) > 0

(* C7: in Upload mode, when parsing the uploaded file fails, the pass ends *)
(* with a user-facing message, an empty row set (every derivation on its   *)
(* no-data branch) and no fault.                                           *)
ParseFailureIsNoData ==
    (passes > 0 /\ mode = UploadMode /\ uploaded # <<>> /\ ~uploaded[1].ok) =>
        /\ notice = ParseFailed
        /\ data_df.rows = <<>>
        /\ IsEmpty(data_df)
        /\ view.fault = "none"
        /\ view.plot = "no_data"
        /\ view.stats_shown = "placeholder"
        /\ ~view.table_shown
        /\ ~view.export_offered

ParseFailureSeen ==
    /\ passes > 0
    /\ mode = UploadMode
    /\ uploaded # <<>>
    /\ ~uploaded[1].ok
    /\ show_table

(* C8 as stated: in the displayed table of a non-empty row set, every row  *)
(* whose timestamp is absent (column missing, or value failed conversion)  *)
(* shows the literal "N/A" as its timestamp, and nothing faults.           *)
ShownAsNotAvailable(row) == Carries(row, "timestamp") /\ row.timestamp = NotAvailable
LacksTimestamp(row) == ~Carries(row, "timestamp")

TableShowsNotAvailable ==
    view.table_shown =>
        /\ view.fault = "none"
        /\ Count(view.table, ShownAsNotAvailable) = Count(data_df.rows, LacksTimestamp)

(* C8 as amended: in the displayed table of a non-empty row set nothing    *)
(* faults; a row whose timestamp failed conversion shows a missing (NaN)   *)
(* timestamp cell, not "N/A"; when the timestamp column is missing the     *)
(* table has no timestamp cell at all.  The literal "N/A" is rendered only *)
(* in the last-timestamp line of the summary, when the column is present   *)
(* and no row has a timestamp.                                             *)
ShownAsMissing(row) == Carries(row, "timestamp") /\ row.timestamp = NaNCell

TableShowsMissingCells ==
    /\ view.table_shown =>
          /\ view.fault = "none"
          /\ Len(view.table) = Len(data_df.rows)
          /\ Count(view.table, ShownAsNotAvailable) = 0
          /\ IF "timestamp" \in data_df.columns
             THEN /\ \A k \in 1..Len(view.table) : Carries(view.table[k], "timestamp")
                  /\ Count(view.table, ShownAsMissing) = Count(data_df.rows, LacksTimestamp)
             ELSE \A k \in 1..Len(view.table) : ~Carries(view.table[k], "timestamp")
    /\ view.last_ts = NotAvailable <=>
          /\ passes > 0
          /\ view.fault = "none"
          /\ "timestamp" \in data_df.columns
          /\ Count(data_df.rows, LacksTimestamp) = Len(data_df.rows)

TableWithMissingTimestamp ==
    /\ view.table_shown
    /\ "timestamp" \in data_df.columns
    /\ Count(data_df.rows, LacksTimestamp) > 0

(* C9 as stated: in every pass in which auto-refresh is enabled, tick is   *)
(* performed exactly once, whatever the mode.                              *)
TickInEveryMode ==
    [][ auto_refresh' => (ticked' = 1 /\ Len(new_rows') = BatchRows) ]_vars

(* C9 as amended: in every pass in Live mode in which auto-refresh is      *)
(* enabled, tick is performed exactly once (one batch of 5 rows appended), *)
(* whether or not the buffer was initialised in that same pass; a pass in  *)
(* Upload or Sample mode performs no tick, whatever the flag.              *)
TickInLiveModeOnly ==
    [][ /\ (mode' = LiveMode /\ auto_refresh') =>
              /\ ticked' = 1
              /\ ticks' = (IF initialised THEN ticks ELSE 0) + 1
              /\ Len(new_rows') = BatchRows
              /\ Len(live_buffer') >= BatchRows
              /\ SubSeq(live_buffer', Len(live_buffer') - BatchRows + 1, Len(live_buffer'))
                    = new_rows'
        /\ (mode' # LiveMode \/ ~auto_refresh') =>
              /\ ticked' = 0
              /\ new_rows' = <<>>
              /\ initialised => (live_buffer' = live_buffer /\ ticks' = ticks) ]_vars

TickWithInit ==
    /\ passes = 1
    /\ mode = LiveMode
    /\ auto_refresh
    /\ ticked = 1
    /\ ticks = 1
    /\ Len(live_buffer) = InitialRows + BatchRows

(* C10: the rolling buffer is changed only by init and tick: a pass in     *)
(* Upload or Sample mode, a pass in Live mode without auto-refresh on an   *)
(* initialised buffer, and the filter, stats, plot, table and export steps *)
(* of any pass leave its rows and their order unchanged.                   *)
BufferChangedOnlyByInitAndTick ==
    [][ /\ (mode' \in {UploadMode, SampleMode} \/ (~auto_refresh' /\ initialised)) =>
              /\ live_buffer' = live_buffer
              /\ initialised' = initialised
              /\ last_live_time' = last_live_time
        /\ mode' = LiveMode =>
              /\ initialised'
              /\ raw_df'.rows = live_buffer' ]_vars

FilteredViewOfLiveBuffer ==
    /\ passes > 0
    /\ initialised
    /\ mode = LiveMode
    /\ ~auto_refresh
    /\ Len(data_df.rows) < Len(live_buffer)
    /\ Len(data_df.rows) > 0

====
